---- MODULE Spec2Model ----
(***************************************************************************)
(* Key-space partitioning engine of the ETL microservice (app/cache.py):   *)
(* ConsistentHashRing (virtual nodes, bisect over a sorted index) and the  *)
(* ModuloSharder baseline, driven through their public methods.            *)
(* Python exceptions are modelled as results tagged "raise".               *)
(***************************************************************************)
EXTENDS Integers, Sequences, FiniteSets, TLC

\* ---------------------------------------------------------------- bounds

\* md5 yields 128-bit integers; the model draws hash values from 0..HashSpace-1.
HashSpace == 3
\* add_node is not called once sorted_keys would grow beyond this length.
MaxIndexLen == 4
\* Longest batch of keys handed to distribution.
MaxBatch == 2

\* datetime.utcnow() reads 0..MaxClock; the handlers that read the clock stop there.
MaxClock == 2
\* Background runs scheduled and not yet started.
MaxTasks == 1

\* ------------------------------------------------------- inputs (small sets)

\* Node identifiers handed to add_node / remove_node.
NodeIds == {"a", "b"}
\* virtual_nodes arguments handed to the ring's constructor (0 is clamped).
VirtualNodeArgs == {0, 1, 2}
\* virtual_nodes arguments of the rings that are asked for distributions.
ShardingVirtualNodeArgs == {0, 1}
\* Keys handed to assign: "a-0" is also the label of a's first virtual node.
Keys == {"a-0", "k1"}
\* cache_nodes lists handed to ModuloSharder by the pipeline's constructor.
CacheNodeLists == {<< >>, <<"b", "a">>}

\* settings.source_names, in the order of the registry's dict.
SourceOrder == <<"crm", "erp">>
\* settings.default_seed_records
SeedCounts == {0, 1}

Positions == 0 .. (HashSpace - 1)

RECURSIVE SeqsUpTo(_, _)
SeqsUpTo(S, n) ==
  IF n = 0 THEN {<< >>}
  ELSE LET shorter == SeqsUpTo(S, n - 1)
       IN shorter \cup {Append(s, x) : s \in {t \in shorter : Len(t) = n - 1}, x \in S}

Batches == SeqsUpTo(Keys, MaxBatch)

\* The key lists handed to sharding_comparison: no key, one key, two keys.
ShardRequests == {<< >>, <<"k1">>, <<"a-0", "k1">>}

VARIABLES
  hashv,          \* the md5-derived hash, a fixed function of the string
  virtual_nodes,  \* ConsistentHashRing.virtual_nodes
  ring,           \* ConsistentHashRing.ring: dict position -> node
  sorted_keys,    \* ConsistentHashRing.sorted_keys: sorted list of positions
  nodes,          \* ModuloSharder.nodes
  members,        \* nodes added to the ring and not removed since (caller's view)
  last,           \* the last call made, its argument, and what it returned or raised
  phase,          \* "import" while main.py's module body runs, then "serving"
  build,          \* where ETLPipeline.__init__ stands in the ring's construction
  now,            \* the last reading of datetime.utcnow()
  sources,        \* SourceRegistry.sources: name -> MockDatabase._rows
  primary,        \* InMemoryWarehouse.primary
  last_run_at,    \* ETLPipeline.last_run_at
  last_result,    \* ETLPipeline.last_result
  tasks,          \* runs scheduled with asyncio.create_task and not yet started
  run             \* the locals of the call of ETLPipeline.run under way, or of the last one

appvars == <<phase, build, now, sources, primary, last_run_at, last_result, tasks, run>>

vars == <<hashv, virtual_nodes, ring, sorted_keys, nodes, members, last,
          phase, build, now, sources, primary, last_run_at, last_result, tasks, run>>

\* ------------------------------------------------------------ python values

Ok(v) == [tag |-> "ok", val |-> v]
Raise(e) == [tag |-> "raise", val |-> e]

IndexError == "IndexError"
RingEmptyError == "RuntimeError: Ring is empty"
NoNodesError == "RuntimeError: No nodes configured"
KeyError == "KeyError"

EmptyDict == << >>

\* d[k] = v
DictSet(d, k, v) == [x \in (DOMAIN d) \cup {k} |-> IF x = k THEN v ELSE d[x]]
\* d.pop(k, None)
DictPop(d, k) == [x \in (DOMAIN d) \ {k} |-> d[x]]
\* d.get(k, default)
DictGet(d, k, default) == IF k \in DOMAIN d THEN d[k] ELSE default

\* list.insert(idx, x), idx counted from 0
ListInsert(s, idx, x) == SubSeq(s, 1, idx) \o <<x>> \o SubSeq(s, idx + 1, Len(s))
\* list.pop(idx), idx counted from 0
ListPop(s, idx) == SubSeq(s, 1, idx) \o SubSeq(s, idx + 2, Len(s))

\* ------------------------------------------------------------------ _hash

\* f"{node}-{i}"
VLabel(node, i) == node \o "-" \o ToString(i)

\* Strings that are hashed by a ring whose virtual-node count is v.
Hashed(v) == {VLabel(n, i) : n \in NodeIds, i \in 0 .. (v - 1)} \cup Keys

_hash(value) == hashv[value]

\* ----------------------------------------------------------------- bisect

\* bisect.bisect_right(a, x, lo, hi): binary search, indices counted from 0
RECURSIVE bisect_right_from(_, _, _, _)
bisect_right_from(a, x, lo, hi) ==
  IF lo < hi
  THEN LET mid == (lo + hi) \div 2
       IN IF x < a[mid + 1]
          THEN bisect_right_from(a, x, lo, mid)
          ELSE bisect_right_from(a, x, mid + 1, hi)
  ELSE lo

\* bisect.bisect_left(a, x, lo, hi)
RECURSIVE bisect_left_from(_, _, _, _)
bisect_left_from(a, x, lo, hi) ==
  IF lo < hi
  THEN LET mid == (lo + hi) \div 2
       IN IF a[mid + 1] < x
          THEN bisect_left_from(a, x, mid + 1, hi)
          ELSE bisect_left_from(a, x, lo, mid)
  ELSE lo

bisect_left(a, x) == bisect_left_from(a, x, 0, Len(a))

bisect_right(a, x) == bisect_right_from(a, x, 0, Len(a))

\* A lookup that bisects to the left, as remove_node does.
bisect_leftmost(a, x) == bisect_left(a, x)

\* bisect.bisect is bisect_right
bisect(a, x) == bisect_right(a, x)

\* bisect.insort is insort_right
insort(a, x) == ListInsert(a, bisect_right(a, x), x)

\* ----------------------------------------------------- ConsistentHashRing

\* The ring's two containers as one value.
RingState(r, sk) == [ring |-> r, sorted_keys |-> sk]

Current == RingState(ring, sorted_keys)

RECURSIVE add_node_from(_, _, _)
add_node_from(st, node, i) ==
  IF i < virtual_nodes
  THEN LET key == _hash(VLabel(node, i))
       IN add_node_from(RingState(DictSet(st.ring, key, node),
                                  insort(st.sorted_keys, key)),
                        node, i + 1)
  ELSE st

\* A loop that leaves a position with the owner it already has.
RECURSIVE add_node_keeping_owner_from(_, _, _)
add_node_keeping_owner_from(st, node, i) ==
  IF i < virtual_nodes
  THEN LET key == _hash(VLabel(node, i))
       IN add_node_keeping_owner_from(
            RingState(IF key \in DOMAIN st.ring THEN st.ring ELSE DictSet(st.ring, key, node),
                      insort(st.sorted_keys, key)),
            node, i + 1)
  ELSE st

add_node_keeping_owner(st, node) == add_node_keeping_owner_from(st, node, 0)

\* A loop that starts at the second virtual node.
add_node_skipping_first(st, node) == add_node_from(st, node, 1)

add_node(st, node) == add_node_from(st, node, 0)

\* One iteration of remove_node's loop.
remove_key(st, key) ==
  LET idx == bisect_left(st.sorted_keys, key)
  IN RingState(DictPop(st.ring, key),
               IF idx < Len(st.sorted_keys) /\ st.sorted_keys[idx + 1] = key
               THEN ListPop(st.sorted_keys, idx)
               ELSE st.sorted_keys)

\* The iterations touch distinct keys, so their order does not matter; the
\* model takes them in increasing order.
RECURSIVE remove_keys(_, _)
remove_keys(st, keys_to_remove) ==
  IF keys_to_remove = {} THEN st
  ELSE LET key == CHOOSE k \in keys_to_remove : \A j \in keys_to_remove : k <= j
       IN remove_keys(remove_key(st, key), keys_to_remove \ {key})

\* A removal that recomputes the node's positions from its labels instead of
\* reading them off the ownership map.
remove_node_by_label(st, node) ==
  remove_keys(st, {_hash(VLabel(node, i)) : i \in 0 .. (virtual_nodes - 1)})

remove_node(st, node) ==
  remove_keys(st, {k \in DOMAIN st.ring : st.ring[k] = node})

\* A lookup whose emptiness test reads the sorted index, not the ownership map.
assign_testing_index(st, key) ==
  IF st.sorted_keys = << >>
  THEN Raise(RingEmptyError)
  ELSE LET hash_key == _hash(key)
           found == bisect(st.sorted_keys, hash_key)
           idx == IF found = Len(st.sorted_keys) THEN 0 ELSE found
       IN IF idx >= Len(st.sorted_keys)
          THEN Raise(IndexError)
          ELSE LET ring_key == st.sorted_keys[idx + 1]
               IN IF ring_key \in DOMAIN st.ring
                  THEN Ok(st.ring[ring_key])
                  ELSE Raise(KeyError)

assign(st, key) ==
  IF DOMAIN st.ring = {}
  THEN Raise(RingEmptyError)
  ELSE LET hash_key == _hash(key)
           found == bisect(st.sorted_keys, hash_key)
           idx == IF found = Len(st.sorted_keys) THEN 0 ELSE found
       IN IF idx >= Len(st.sorted_keys)
          THEN Raise(IndexError)
          ELSE LET ring_key == st.sorted_keys[idx + 1]
               IN IF ring_key \in DOMAIN st.ring
                  THEN Ok(st.ring[ring_key])
                  ELSE Raise(KeyError)

\* A lookup that takes the position it found out of the ownership map.
assign_self_popping(st, key) ==
  IF assign(st, key).tag = "raise" THEN st
  ELSE LET found == bisect(st.sorted_keys, _hash(key))
           idx == IF found = Len(st.sorted_keys) THEN 0 ELSE found
       IN RingState(DictPop(st.ring, st.sorted_keys[idx + 1]), st.sorted_keys)

\* The ring after assign(key): assign stores nothing in self.
assign_self(st, key) == st

\* The loop of distribution from the i-th key of the batch on.
RECURSIVE distribution_from(_, _, _, _)
distribution_from(st, keys, i, counts) ==
  IF i > Len(keys) THEN Ok(counts)
  ELSE LET node == assign(st, keys[i])
       IN IF node.tag = "raise" THEN node
          ELSE distribution_from(st, keys, i + 1,
                 DictSet(counts, node.val, DictGet(counts, node.val, 0) + 1))

\* A tally that answers an empty ring with the empty mapping.
distribution_defaulting(st, keys) ==
  IF DOMAIN st.ring = {} THEN Ok(EmptyDict) ELSE distribution_from(st, keys, 1, EmptyDict)

distribution(st, keys) == distribution_from(st, keys, 1, EmptyDict)

\* A constructor that stores the argument as it is.
clamp_missing(vn) == vn

\* The ring after distribution(keys): the calls of assign up to the first that raises.
RECURSIVE distribution_self_from(_, _, _)
distribution_self_from(st, keys, i) ==
  IF i > Len(keys) \/ assign(st, keys[i]).tag = "raise" THEN st
  ELSE distribution_self_from(assign_self(st, keys[i]), keys, i + 1)

distribution_self(st, keys) == distribution_self_from(st, keys, 1)

\* max(1, virtual_nodes)
clamp(vn) == IF vn > 1 THEN vn ELSE 1

\* The loop of ConsistentHashRing.__init__ from the i-th node of the list on.
RECURSIVE ring_init_from(_, _, _)
ring_init_from(st, node_list, i) ==
  IF i > Len(node_list) THEN st
  ELSE ring_init_from(add_node(st, node_list[i]), node_list, i + 1)

\* ConsistentHashRing.__init__ once virtual_nodes is set
ring_init(node_list) == ring_init_from(RingState(EmptyDict, << >>), node_list, 1)

\* ---------------------------------------------------------- ModuloSharder

\* A sharder that counts the nodes from the end of the list.
sharder_assign_reversed(ns, key) ==
  IF Len(ns) = 0
  THEN Raise(NoNodesError)
  ELSE Ok(ns[Len(ns) - (_hash(key) % Len(ns))])

sharder_assign(ns, key) ==
  IF Len(ns) = 0
  THEN Raise(NoNodesError)
  ELSE Ok(ns[(_hash(key) % Len(ns)) + 1])

RECURSIVE sharder_distribution_from(_, _, _, _)
sharder_distribution_from(ns, keys, i, counts) ==
  IF i > Len(keys) THEN Ok(counts)
  ELSE LET node == sharder_assign(ns, keys[i])
       IN IF node.tag = "raise" THEN node
          ELSE sharder_distribution_from(ns, keys, i + 1,
                 DictSet(counts, node.val, DictGet(counts, node.val, 0) + 1))

sharder_distribution(ns, keys) == sharder_distribution_from(ns, keys, 1, EmptyDict)

\* --------------------------------------------------------------- ETLPipeline

\* ETLPipeline.sharding_comparison: the ring's distribution, then the sharder's.
sharding_comparison(st, ns, keys) ==
  LET c == distribution(st, keys)
  IN IF c.tag = "raise" THEN c
     ELSE LET m == sharder_distribution(ns, keys)
          IN IF m.tag = "raise" THEN m
             ELSE Ok([consistent_hash |-> c.val, modulo |-> m.val])

\* ------------------------------------------------------------ state machine

Call(op, arg, pre, out) == [op |-> op, arg |-> arg, pre |-> pre, out |-> out]

\* The ring's containers and the caller's view of its membership.
Snapshot == [ring |-> ring, sorted_keys |-> sorted_keys, members |-> members, nodes |-> nodes]

\* Optional[datetime] = None, Optional[ETLRunResult] = None
NoTime == -1
NoResult == [present |-> FALSE]

\* No call of ETLPipeline.run has been made yet.
NoRun ==
  [pc |-> "none", started_at |-> NoTime, raw_records |-> << >>,
   transformed |-> << >>, loaded |-> 0, finished_at |-> NoTime]

\* The pipeline and its ring taken alone: no sources, no warehouse rows, no run.
AppInert ==
  /\ phase = "serving"
  /\ build = [i |-> Len(nodes) + 1, j |-> 0, stored |-> FALSE]
  /\ now = 0
  /\ sources = [s \in {SourceOrder[i] : i \in 1 .. Len(SourceOrder)} |-> << >>]
  /\ primary = << >>
  /\ last_run_at = NoTime
  /\ last_result = NoResult
  /\ tasks = 0
  /\ run = NoRun

\* ETLPipeline.__init__: ConsistentHashRing(cache_nodes, vn), ModuloSharder(cache_nodes)
InitWith(vnArgs, lists) ==
  /\ \E vn \in vnArgs : virtual_nodes = clamp(vn)
  /\ hashv \in [Hashed(virtual_nodes) -> Positions]
  /\ \E cache_nodes \in lists :
       /\ ring = ring_init(cache_nodes).ring
       /\ sorted_keys = ring_init(cache_nodes).sorted_keys
       /\ nodes = cache_nodes
       /\ members = {cache_nodes[i] : i \in 1 .. Len(cache_nodes)}
       /\ last = Call("init", cache_nodes,
                      [ring |-> EmptyDict, sorted_keys |-> << >>, members |-> {}],
                      Ok("None"))
  /\ AppInert

\* A ring built empty, with every virtual-node argument.
Init == InitWith(VirtualNodeArgs, {<< >>})

AddNode(node) ==
  /\ Len(sorted_keys) + virtual_nodes <= MaxIndexLen
  /\ LET st == add_node(Current, node)
     IN /\ ring' = st.ring
        /\ sorted_keys' = st.sorted_keys
  /\ members' = members \cup {node}
  /\ last' = Call("add_node", node, Snapshot, Ok("None"))
  /\ UNCHANGED <<hashv, virtual_nodes, nodes>>
  /\ UNCHANGED appvars

RemoveNode(node) ==
  /\ LET st == remove_node(Current, node)
     IN /\ ring' = st.ring
        /\ sorted_keys' = st.sorted_keys
  /\ members' = members \ {node}
  /\ last' = Call("remove_node", node, Snapshot, Ok("None"))
  /\ UNCHANGED <<hashv, virtual_nodes, nodes>>
  /\ UNCHANGED appvars

Assign(key) ==
  /\ last' = Call("assign", key, Snapshot, assign(Current, key))
  /\ LET st == assign_self(Current, key)
     IN /\ ring' = st.ring
        /\ sorted_keys' = st.sorted_keys
  /\ UNCHANGED <<hashv, virtual_nodes, nodes, members>>
  /\ UNCHANGED appvars

Distribution(keys) ==
  /\ last' = Call("distribution", keys, Snapshot, distribution(Current, keys))
  /\ LET st == distribution_self(Current, keys)
     IN /\ ring' = st.ring
        /\ sorted_keys' = st.sorted_keys
  /\ UNCHANGED <<hashv, virtual_nodes, nodes, members>>
  /\ UNCHANGED appvars

\* ETLPipeline.sharding_comparison(keys); the sharder's methods only read self.nodes.
ShardingComparison(keys) ==
  /\ last' = Call("sharding_comparison", keys, Snapshot,
                  sharding_comparison(Current, nodes, keys))
  /\ LET st == distribution_self(Current, keys)
     IN /\ ring' = st.ring
        /\ sorted_keys' = st.sorted_keys
  /\ UNCHANGED <<hashv, virtual_nodes, nodes, members>>
  /\ UNCHANGED appvars

SharderAssign(key) ==
  /\ last' = Call("sharder.assign", key, Snapshot, sharder_assign(nodes, key))
  /\ UNCHANGED <<hashv, virtual_nodes, ring, sorted_keys, nodes, members>>
  /\ UNCHANGED appvars

SharderDistribution(keys) ==
  /\ last' = Call("sharder.distribution", keys, Snapshot,
                  sharder_distribution(nodes, keys))
  /\ UNCHANGED <<hashv, virtual_nodes, ring, sorted_keys, nodes, members>>
  /\ UNCHANGED appvars

\* Membership changes and single-key lookups on the ring.
Next ==
  \/ \E node \in NodeIds : AddNode(node)
  \/ \E node \in NodeIds : RemoveNode(node)
  \/ \E key \in Keys : Assign(key)

Spec == Init /\ [][Next]_vars

\* The pipeline's ring (one virtual node per node) and sharder, built from the
\* same cache_nodes list, asked for distributions over batches of keys.
InitSharding == InitWith(ShardingVirtualNodeArgs, CacheNodeLists)

NextSharding ==
  \/ \E node \in NodeIds : AddNode(node)
  \/ \E node \in NodeIds : RemoveNode(node)
  \/ \E keys \in Batches : Distribution(keys)
  \/ \E key \in Keys : SharderAssign(key)
  \/ \E keys \in ShardRequests : SharderDistribution(keys)

SpecSharding == InitSharding /\ [][NextSharding]_vars

\* The pipeline's ring and sharder, read through assign, distribution and
\* sharding_comparison between membership changes.
NextReads ==
  \/ \E node \in NodeIds : AddNode(node)
  \/ \E node \in NodeIds : RemoveNode(node)
  \/ \E key \in Keys : Assign(key)
  \/ \E keys \in Batches : Distribution(keys)
  \/ \E keys \in ShardRequests : ShardingComparison(keys)

SpecReads == InitSharding /\ [][NextReads]_vars

\* Rings built with a virtual-node argument that is not positive.
NonPositiveVirtualNodeArgs == {-1, 0}

InitClamped == InitWith(NonPositiveVirtualNodeArgs, {<< >>})

SpecClamped == InitClamped /\ [][Next]_vars

\* ------------------------------------------------------------ the service

SourceNames == {SourceOrder[i] : i \in 1 .. Len(SourceOrder)}
\* The {source} path parameter: the registered names and one that is not.
SourceArgs == SourceNames \cup {"hr"}

Http404 == "HTTPException 404"
Http400 == "HTTPException 400"

\* datetime.utcnow(): a reading never earlier than the last one, possibly equal to it.
ClockReads == {t \in {now, now + 1} : t <= MaxClock}

\* The ids uuid4 has handed out so far.
UsedIds == UNION {{sources[s][i].id : i \in 1 .. Len(sources[s])} : s \in SourceNames}

\* MockDatabase.insert_random at time t: a fresh id, extracted up to 300 s earlier.
SeedRecords(s, t) == [id : Keys, source : {s}, extracted_at : {t - 1, t}]

\* SourceRegistry.__init__ at time t: every source seeded with count records.
SeededRegistries(count, t) ==
  {f \in [SourceNames -> UNION {[1 .. count -> SeedRecords(s, t)] : s \in SourceNames}] :
     /\ \A s \in SourceNames : \A i \in 1 .. count : f[s][i].source = s
     /\ \A s1 \in SourceNames : \A s2 \in SourceNames :
          \A i1 \in 1 .. count : \A i2 \in 1 .. count :
            (f[s1][i1].id = f[s2][i2].id) => (s1 = s2 /\ i1 = i2)}

\* MockDatabase.fetch_since
fetch_since(rows, since) ==
  IF since = NoTime THEN rows
  ELSE SelectSeq(rows, LAMBDA row : row.extracted_at > since)

\* SourceRegistry.fetch_all_since: the sources in the dict's order.
RECURSIVE fetch_all_from(_, _, _)
fetch_all_from(srcs, since, i) ==
  IF i > Len(SourceOrder) THEN << >>
  ELSE fetch_since(srcs[SourceOrder[i]], since) \o fetch_all_from(srcs, since, i + 1)

fetch_all_since(srcs, since) == fetch_all_from(srcs, since, 1)

\* ETLPipeline._transform by the sharder instead of the ring (variant).
transform_by_modulo(st, ns, record) ==
  LET shard == sharder_assign(ns, record.id)
  IN IF shard.tag = "raise" THEN shard
     ELSE Ok([id |-> record.id, source |-> record.source, cache_shard |-> shard.val])

\* ETLPipeline._transform; the payload plays no part in sharding or loading.
transform(st, ns, record) ==
  LET shard == assign(st, record.id)
  IN IF shard.tag = "raise" THEN shard
     ELSE Ok([id |-> record.id, source |-> record.source, cache_shard |-> shard.val])

\* InMemoryWarehouse.load: the primary's rows after the call, and the count returned.
warehouse_load(rows, records) == [rows |-> rows \o records, loaded |-> Len(records)]

\* [rec.id for rec in transformed]
RECURSIVE ids_from(_, _)
ids_from(recs, i) ==
  IF i > Len(recs) THEN << >> ELSE <<recs[i].id>> \o ids_from(recs, i + 1)

ids_of(recs) == ids_from(recs, 1)

\* Requests are dispatched before the module body has finished (variant).
serving_during_import == TRUE

\* uvicorn imports app.main to its last line before the loop dispatches a request.
serving == phase = "serving"

\* The loop runs one coroutine at a time, and pipeline.run never awaits: a
\* handler or a scheduled run starts only when no run is part-way through.
Idle == serving /\ run.pc \in {"none", "done", "failed"}

\* ConsistentHashRing.add_node during construction, first half of one
\* iteration: self.ring[key] = node.
BuildOwner ==
  /\ phase = "import"
  /\ build.i <= Len(nodes)
  /\ ~build.stored
  /\ ring' = DictSet(ring, _hash(VLabel(nodes[build.i], build.j)), nodes[build.i])
  /\ build' = [build EXCEPT !.stored = TRUE]
  /\ UNCHANGED <<hashv, virtual_nodes, sorted_keys, nodes, members, last>>
  /\ UNCHANGED <<phase, now, sources, primary, last_run_at, last_result, tasks, run>>

\* Second half: bisect.insort(self.sorted_keys, key); then the next virtual
\* node, or the next node of cache_nodes.
BuildInsort ==
  /\ phase = "import"
  /\ build.i <= Len(nodes)
  /\ build.stored
  /\ sorted_keys' = insort(sorted_keys, _hash(VLabel(nodes[build.i], build.j)))
  /\ IF build.j + 1 < virtual_nodes
     THEN /\ build' = [i |-> build.i, j |-> build.j + 1, stored |-> FALSE]
          /\ UNCHANGED <<members, last>>
     ELSE /\ build' = [i |-> build.i + 1, j |-> 0, stored |-> FALSE]
          /\ members' = members \cup {nodes[build.i]}
          /\ last' = Call("add_node", nodes[build.i],
                          [ring |-> ring, sorted_keys |-> sorted_keys,
                           members |-> members, nodes |-> nodes],
                          Ok("None"))
  /\ UNCHANGED <<hashv, virtual_nodes, ring, nodes>>
  /\ UNCHANGED <<phase, now, sources, primary, last_run_at, last_result, tasks, run>>

\* The module body of main.py reaches its end; the application serves.
FinishImport ==
  /\ phase = "import"
  /\ build.i > Len(nodes)
  /\ phase' = "serving"
  /\ UNCHANGED <<hashv, virtual_nodes, ring, sorted_keys, nodes, members, last>>
  /\ UNCHANGED <<build, now, sources, primary, last_run_at, last_result, tasks, run>>

\* POST /sources/{source}/seed: SourceRegistry.add_to_source, MockDatabase.add
SeedSource(source, id, t) ==
  /\ Idle
  /\ IF source \notin DOMAIN sources
     THEN /\ last' = Call("seed_source", source, Snapshot, Raise(Http404))
          /\ UNCHANGED <<now, sources>>
     ELSE /\ id \notin UsedIds
          /\ now' = t
          /\ sources' = [sources EXCEPT ![source] =
                           Append(@, [id |-> id, source |-> source, extracted_at |-> t])]
          /\ last' = Call("seed_source", source, Snapshot, Ok(id))
  /\ UNCHANGED <<hashv, virtual_nodes, ring, sorted_keys, nodes, members>>
  /\ UNCHANGED <<phase, build, primary, last_run_at, last_result, tasks, run>>

\* ETLPipeline.run, its first two lines: the clock, then the extraction.
BeginRun(t) ==
  /\ now' = t
  /\ last' = Call("fetch_all_since", last_run_at, Snapshot,
                  Ok(fetch_all_since(sources, last_run_at)))
  /\ run' = [pc |-> "transform", started_at |-> t,
             raw_records |-> fetch_all_since(sources, last_run_at),
             transformed |-> << >>, loaded |-> 0, finished_at |-> NoTime]

\* POST /etl/run: schedule a task, or run the pipeline within the handler.
EtlRun(async_mode, t) ==
  /\ Idle
  /\ IF async_mode
     THEN /\ tasks < MaxTasks
          /\ tasks' = tasks + 1
          /\ UNCHANGED <<now, run, last>>
     ELSE /\ BeginRun(t)
          /\ UNCHANGED tasks
  /\ UNCHANGED <<hashv, virtual_nodes, ring, sorted_keys, nodes, members>>
  /\ UNCHANGED <<phase, build, sources, primary, last_run_at, last_result>>

\* The loop starts a task made by asyncio.create_task(_run_etl()).
TaskStart(t) ==
  /\ Idle
  /\ tasks > 0
  /\ tasks' = tasks - 1
  /\ BeginRun(t)
  /\ UNCHANGED <<hashv, virtual_nodes, ring, sorted_keys, nodes, members>>
  /\ UNCHANGED <<phase, build, sources, primary, last_run_at, last_result>>

\* One element of [self._transform(record) for record in raw_records]; an
\* exception of assign ends the run.
RunTransform ==
  /\ run.pc = "transform"
  /\ Len(run.transformed) < Len(run.raw_records)
  /\ LET record == run.raw_records[Len(run.transformed) + 1]
         out == transform(Current, nodes, record)
     IN /\ last' = Call("assign", record.id, Snapshot, assign(Current, record.id))
        /\ ring' = assign_self(Current, record.id).ring
        /\ sorted_keys' = assign_self(Current, record.id).sorted_keys
        /\ run' = IF out.tag = "raise"
                  THEN [run EXCEPT !.pc = "failed"]
                  ELSE [run EXCEPT !.transformed = Append(@, out.val)]
  /\ UNCHANGED <<hashv, virtual_nodes, nodes, members>>
  /\ UNCHANGED <<phase, build, now, sources, primary, last_run_at, last_result, tasks>>

\* loaded = self.warehouse.load(transformed); finished_at = datetime.utcnow()
RunLoad(t) ==
  /\ run.pc = "transform"
  /\ Len(run.transformed) = Len(run.raw_records)
  /\ primary' = warehouse_load(primary, run.transformed).rows
  /\ now' = t
  /\ run' = [run EXCEPT !.pc = "distribution",
                        !.loaded = warehouse_load(primary, run.transformed).loaded,
                        !.finished_at = t]
  /\ UNCHANGED <<hashv, virtual_nodes, ring, sorted_keys, nodes, members, last>>
  /\ UNCHANGED <<phase, build, sources, last_run_at, last_result, tasks>>

\* The distribution over the batch's ids, then last_run_at and last_result.
RunFinish ==
  /\ run.pc = "distribution"
  /\ LET keys == ids_of(run.transformed)
         out == distribution(Current, keys)
     IN /\ last' = Call("distribution", keys, Snapshot, out)
        /\ ring' = distribution_self(Current, keys).ring
        /\ sorted_keys' = distribution_self(Current, keys).sorted_keys
        /\ IF out.tag = "raise"
           THEN /\ run' = [run EXCEPT !.pc = "failed"]
                /\ UNCHANGED <<last_run_at, last_result>>
           ELSE /\ run' = [run EXCEPT !.pc = "done"]
                /\ last_run_at' = run.finished_at
                /\ last_result' = [present |-> TRUE,
                                   started_at |-> run.started_at,
                                   finished_at |-> run.finished_at,
                                   records_extracted |-> Len(run.raw_records),
                                   records_loaded |-> run.loaded,
                                   cache_distribution |-> out.val]
  /\ UNCHANGED <<hashv, virtual_nodes, nodes, members>>
  /\ UNCHANGED <<phase, build, now, sources, primary, tasks>>

\* POST /cache/shards
CacheShards(keys) ==
  /\ Idle
  /\ IF keys = << >>
     THEN /\ last' = Call("cache_shards", keys, Snapshot, Raise(Http400))
          /\ UNCHANGED <<ring, sorted_keys>>
     ELSE /\ last' = Call("sharding_comparison", keys, Snapshot,
                          sharding_comparison(Current, nodes, keys))
          /\ ring' = distribution_self(Current, keys).ring
          /\ sorted_keys' = distribution_self(Current, keys).sorted_keys
  /\ UNCHANGED <<hashv, virtual_nodes, nodes, members>>
  /\ UNCHANGED appvars

\* The sources, the warehouse and the pipeline's plain fields as main.py's
\* module body makes them, at time 1.
AppStarted ==
  /\ now = 1
  /\ \E count \in SeedCounts : sources \in SeededRegistries(count, 1)
  /\ primary = << >>
  /\ last_run_at = NoTime
  /\ last_result = NoResult
  /\ tasks = 0
  /\ run = NoRun

\* main.py's module body at the call of ConsistentHashRing(cache_nodes, vn):
\* the ring is empty and nodes holds settings.cache_nodes.
InitImport ==
  /\ \E vn \in ShardingVirtualNodeArgs : virtual_nodes = clamp(vn)
  /\ hashv \in [Hashed(virtual_nodes) -> Positions]
  /\ nodes \in CacheNodeLists
  /\ ring = EmptyDict
  /\ sorted_keys = << >>
  /\ members = {}
  /\ last = Call("init", nodes,
                 [ring |-> EmptyDict, sorted_keys |-> << >>, members |-> {}],
                 Ok("None"))
  /\ phase = "import"
  /\ build = [i |-> 1, j |-> 0, stored |-> FALSE]
  /\ AppStarted

\* The service from the construction of its ring on: the ring is built step by
\* step, then requests read it and runs are made over the seeded sources.
NextServe ==
  \/ BuildOwner
  \/ BuildInsort
  \/ FinishImport
  \/ \E keys \in ShardRequests : CacheShards(keys)
  \/ \E async_mode \in BOOLEAN : \E t \in ClockReads : EtlRun(async_mode, t)
  \/ \E t \in ClockReads : TaskStart(t)
  \/ RunTransform
  \/ \E t \in ClockReads : RunLoad(t)
  \/ RunFinish

SpecServe == InitImport /\ [][NextServe]_vars

\* The service once main.py's module body has run.
InitEtl ==
  /\ \E vn \in ShardingVirtualNodeArgs : virtual_nodes = clamp(vn)
  /\ hashv \in [Hashed(virtual_nodes) -> Positions]
  /\ nodes \in CacheNodeLists
  /\ ring = ring_init(nodes).ring
  /\ sorted_keys = ring_init(nodes).sorted_keys
  /\ members = {nodes[i] : i \in 1 .. Len(nodes)}
  /\ last = Call("init", nodes,
                 [ring |-> EmptyDict, sorted_keys |-> << >>, members |-> {}],
                 Ok("None"))
  /\ phase = "serving"
  /\ build = [i |-> Len(nodes) + 1, j |-> 0, stored |-> FALSE]
  /\ AppStarted

\* Records are inserted and runs are made, awaited or scheduled.
NextEtl ==
  \/ \E source \in SourceArgs : \E id \in Keys : \E t \in ClockReads : SeedSource(source, id, t)
  \/ \E async_mode \in BOOLEAN : \E t \in ClockReads : EtlRun(async_mode, t)
  \/ \E t \in ClockReads : TaskStart(t)
  \/ RunTransform
  \/ \E t \in ClockReads : RunLoad(t)
  \/ RunFinish

SpecEtl == InitEtl /\ [][NextEtl]_vars

\* ----------------------------------------------------------------- claims

SetMin(S) == CHOOSE x \in S : \A y \in S : x <= y

\* The positions the ownership map holds, and those a node owns.
RingPositions(st) == DOMAIN st.ring
Owned(st, n) == {p \in DOMAIN st.ring : st.ring[p] = n}

\* The positions the sorted index holds.
IndexPositions(st) == {st.sorted_keys[i] : i \in 1 .. Len(st.sorted_keys)}

\* The labels of the virtual nodes, and hash functions under which no two collide.
Labels == {VLabel(n, i) : n \in NodeIds, i \in 0 .. (virtual_nodes - 1)}
NoLabelCollision == \A s \in Labels : \A t \in Labels : s # t => hashv[s] # hashv[t]

\* The position that is first at or after h among S, going round.
FirstAtOrAfter(S, h) ==
  IF {p \in S : p >= h} # {} THEN SetMin({p \in S : p >= h}) ELSE SetMin(S)

\* The position that is first strictly after h among S, going round.
FirstAfter(S, h) ==
  IF {p \in S : p > h} # {} THEN SetMin({p \in S : p > h}) ELSE SetMin(S)

C2_AssignReturnsMember ==
  (last.op = "assign" /\ members # {} /\ NoLabelCollision)
    => (last.out.tag = "ok" /\ last.out.val \in members)

\* C3 (as claimed): after remove_node(n), every key that was assigned to n is
\* assigned to another current member, and assign fails only if the ring is
\* now empty. Stated for the hash functions without label collisions.
C3_RemovedNodeKeysReassigned ==
  (last.op = "remove_node" /\ NoLabelCollision)
    => \A k \in Keys :
         assign(last.pre, k) = Ok(last.arg)
           => \/ members = {}
              \/ /\ assign(Current, k).tag = "ok"
                 /\ assign(Current, k).val \in members \ {last.arg}

\* C4: assign on a ring without nodes raises the empty-ring error, whatever the
\* key, and leaves the ring as it was.
C4_EmptyRingFails ==
  (last.op = "assign" /\ members = {})
    => /\ last.out = Raise(RingEmptyError)
       /\ Current = RingState(last.pre.ring, last.pre.sorted_keys)

\* C4 witness: assign has raised on a ring all of whose nodes were removed (the
\* index still holds a position of a node that was added).
C4_Witness ==
  /\ last.op = "assign"
  /\ members = {}
  /\ Len(sorted_keys) > 0
  /\ last.out = Raise(RingEmptyError)

\* C5 (as claimed): distribution on an empty ring, or on a sharder without
\* nodes, fails for any batch of keys.
C5_EmptyTopologyFails ==
  /\ (last.op = "distribution" /\ members = {}) => last.out.tag = "raise"
  /\ (last.op = "sharder.distribution" /\ nodes = << >>) => last.out.tag = "raise"

\* C5 (amended): distribution on an empty ring, or on a sharder without nodes,
\* fails with the empty-topology error for any batch that holds at least one
\* key, and returns the empty mapping for the empty batch.
C5_EmptyTopologyFailsOnKeys ==
  /\ (last.op = "distribution" /\ members = {})
       => last.out = IF Len(last.arg) > 0 THEN Raise(RingEmptyError) ELSE Ok(EmptyDict)
  /\ (last.op = "sharder.distribution" /\ nodes = << >>)
       => last.out = IF Len(last.arg) > 0 THEN Raise(NoNodesError) ELSE Ok(EmptyDict)

\* C5 witness: distribution over two keys has raised on a ring whose nodes were
\* all removed.
C5_Witness ==
  /\ last.op = "distribution"
  /\ members = {}
  /\ Len(sorted_keys) > 0
  /\ Len(last.arg) = 2
  /\ last.out = Raise(RingEmptyError)

\* The number of entries of the batch that assign maps to node n.
RingTally(st, keys, n) == Cardinality({i \in 1 .. Len(keys) : assign(st, keys[i]) = Ok(n)})
SharderTally(ns, keys, n) ==
  Cardinality({i \in 1 .. Len(keys) : sharder_assign(ns, keys[i]) = Ok(n)})

RECURSIVE DictSum(_)
DictSum(d) ==
  IF DOMAIN d = {} THEN 0
  ELSE LET k == CHOOSE x \in DOMAIN d : TRUE IN d[k] + DictSum(DictPop(d, k))

\* C6 (as claimed): on a non-empty ring or sharder, distribution returns a mapping
\* that gives each node the number of batch entries assign maps to it, leaves out
\* the nodes that receive none, and sums to the length of the batch. Stated for
\* the hash functions without label collisions.
C6_DistributionTallies ==
  /\ (last.op = "distribution" /\ members # {} /\ NoLabelCollision)
       => /\ last.out.tag = "ok"
          /\ DOMAIN last.out.val = {n \in NodeIds : RingTally(Current, last.arg, n) > 0}
          /\ \A n \in DOMAIN last.out.val : last.out.val[n] = RingTally(Current, last.arg, n)
          /\ DictSum(last.out.val) = Len(last.arg)
  /\ (last.op = "sharder.distribution" /\ nodes # << >>)
       => /\ last.out.tag = "ok"
          /\ DOMAIN last.out.val = {n \in NodeIds : SharderTally(nodes, last.arg, n) > 0}
          /\ \A n \in DOMAIN last.out.val : last.out.val[n] = SharderTally(nodes, last.arg, n)
          /\ DictSum(last.out.val) = Len(last.arg)

\* C7 (as claimed): add_node(n) for a node that is already in the ring leaves the
\* stored positions and their ownership as they were.
C7_ReAddIsNoOp ==
  (last.op = "add_node" /\ last.arg \in last.pre.members)
    => /\ ring = last.pre.ring
       /\ sorted_keys = last.pre.sorted_keys

\* C8 (as claimed): every node in the ring has exactly V virtual positions in it,
\* collisions included.
C8_ExactlyVPositions ==
  \A n \in members : Cardinality(Owned(Current, n)) = virtual_nodes

\* No label of n hashes to the position of another label, of n or of another node.
CollisionFree(n) ==
  \A i \in 0 .. (virtual_nodes - 1) : \A t \in Labels :
    t # VLabel(n, i) => hashv[t] # hashv[VLabel(n, i)]

\* C8 (amended): every node in the ring owns at most V positions of the
\* ownership map, each the hash of one of its labels, and exactly V when none
\* of its labels collides with another label.
C8_AtMostVPositions ==
  \A n \in members :
    /\ Owned(Current, n) \subseteq {hashv[VLabel(n, i)] : i \in 0 .. (virtual_nodes - 1)}
    /\ Cardinality(Owned(Current, n)) <= virtual_nodes
    /\ CollisionFree(n) => Cardinality(Owned(Current, n)) = virtual_nodes

\* C8 witness: with V = 2, a owns its two positions and b, one of whose
\* positions collides, owns fewer.
C8_Witness ==
  /\ virtual_nodes = 2
  /\ members = {"a", "b"}
  /\ Cardinality(Owned(Current, "a")) = 2
  /\ Cardinality(Owned(Current, "b")) = 1

\* C9: remove_node(n) leaves every key that was assigned to a node other than n
\* with that node.
C9_RemoveKeepsOtherKeys ==
  last.op = "remove_node"
    => \A k \in Keys :
         (assign(last.pre, k).tag = "ok" /\ assign(last.pre, k).val # last.arg)
           => assign(Current, k) = assign(last.pre, k)

\* C9 witness: b, which owned a position, has been removed; one key was b's and
\* moved to a, the other was a's and stayed.
C9_Witness ==
  /\ last.op = "remove_node"
  /\ last.arg = "b"
  /\ Owned(last.pre, "b") # {}
  /\ \E k \in Keys : assign(last.pre, k) = Ok("b") /\ assign(Current, k) = Ok("a")
  /\ \E k \in Keys : assign(last.pre, k) = Ok("a") /\ assign(Current, k) = Ok("a")

\* C10: remove_node(n) for a node that is not in the ring returns normally and
\* leaves the ownership map and the sorted index unchanged.
C10_RemoveAbsentIsNoOp ==
  (last.op = "remove_node" /\ last.arg \notin last.pre.members)
    => /\ last.out = Ok("None")
       /\ ring = last.pre.ring
       /\ sorted_keys = last.pre.sorted_keys

\* C10 witness: b, absent, has been removed from a ring that holds a and whose
\* index still holds a position b left behind.
C10_Witness ==
  /\ last.op = "remove_node"
  /\ last.arg = "b"
  /\ "b" \notin last.pre.members
  /\ "a" \in members
  /\ \E i \in 0 .. (virtual_nodes - 1) : hashv[VLabel("b", i)] \in IndexPositions(Current)
  /\ NoLabelCollision

\* C11: when a position of the node just added is also a position of another
\* node, the node just added owns it, and every key whose lookup lands on it is
\* assigned to the node just added.
C11_LastWriteWins ==
  last.op = "add_node"
    => \A i \in 0 .. (virtual_nodes - 1) :
         LET p == _hash(VLabel(last.arg, i))
         IN /\ p \in RingPositions(Current)
            /\ ring[p] = last.arg
            /\ \A k \in Keys :
                 FirstAfter(IndexPositions(Current), _hash(k)) = p
                   => assign(Current, k) = Ok(last.arg)

\* C11 witness: b has been added on a position that a owned, b owns it now, and
\* a key that lands on it goes to b while another key still goes to a.
C11_Witness ==
  /\ last.op = "add_node"
  /\ last.arg = "b"
  /\ \E i \in 0 .. (virtual_nodes - 1) :
       LET p == _hash(VLabel("b", i))
       IN /\ p \in DOMAIN last.pre.ring
          /\ last.pre.ring[p] = "a"
          /\ ring[p] = "b"
          /\ \E k \in Keys : /\ FirstAfter(IndexPositions(Current), _hash(k)) = p
                             /\ assign(last.pre, k) = Ok("a")
                             /\ assign(Current, k) = Ok("b")
  /\ \E k \in Keys : assign(Current, k) = Ok("a")

\* C13: ModuloSharder.assign raises the empty-sharder error when no node is
\* configured and otherwise returns the node at index hash(key) mod len(nodes)
\* of the list the sharder was built from, in the order it was given.
C13_SharderAssign ==
  last.op = "sharder.assign"
    => \E given \in CacheNodeLists :
         /\ nodes = given
         /\ IF Len(given) = 0
            THEN last.out = Raise(NoNodesError)
            ELSE \E r \in 0 .. (Len(given) - 1) :
                   /\ \E q \in 0 .. HashSpace : _hash(last.arg) = q * Len(given) + r
                   /\ last.out = Ok(given[r + 1])

\* C13 witness: on the list <<b, a>> a key with an odd hash has been given a,
\* the second node of the list.
C13_Witness ==
  /\ last.op = "sharder.assign"
  /\ nodes = <<"b", "a">>
  /\ _hash(last.arg) = 1
  /\ last.out = Ok("a")

\* C14: a ring built with a virtual-node count that is not positive has
\* virtual_nodes = 1, and every add_node inserts exactly one position, the hash
\* of the node's label 0, into the ownership map and the sorted index.
C14_ClampedToOne ==
  /\ virtual_nodes = 1
  /\ last.op = "add_node"
       => LET p == _hash(VLabel(last.arg, 0))
          IN /\ ring = DictSet(last.pre.ring, p, last.arg)
             /\ Len(sorted_keys) = Len(last.pre.sorted_keys) + 1
             /\ \E i \in 1 .. Len(sorted_keys) :
                  /\ sorted_keys[i] = p
                  /\ ListPop(sorted_keys, i - 1) = last.pre.sorted_keys

\* C14 witness: a node has been added to such a ring and owns its one position.
C14_Witness ==
  /\ last.op = "add_node"
  /\ last.arg = "b"
  /\ Owned(Current, "b") = {_hash(VLabel("b", 0))}
  /\ Owned(Current, "a") # {}

\* C15 (as claimed): the sorted index is strictly increasing and holds exactly
\* the positions of the ownership map. Stated for the hash functions without
\* label collisions.
C15_IndexMatchesMap ==
  NoLabelCollision
    => /\ \A i \in 1 .. (Len(sorted_keys) - 1) : sorted_keys[i] < sorted_keys[i + 1]
       /\ IndexPositions(Current) = RingPositions(Current)

\* C16 (as claimed): after add_node(d) for a node d that was not in the ring,
\* every key is assigned to the node it had before or to d. Stated for the hash
\* functions without label collisions.
C16_AddMovesKeysOnlyToNewNode ==
  (last.op = "add_node" /\ last.arg \notin last.pre.members /\ NoLabelCollision)
    => \A k \in Keys :
         \/ assign(Current, k) = Ok(last.arg)
         \/ /\ assign(Current, k).tag = "ok"
            /\ assign(Current, k) = assign(last.pre, k)

\* C19 (as claimed): add_node(d) for a node d that is not in the ring, followed
\* by remove_node(d), leaves every key with the outcome of assign it had before
\* the two calls, also when a position of d collides with a position of another
\* node. The formula removes d from the ring that add_node(d) has just produced.
C19_AddRemoveRoundTrip ==
  (last.op = "add_node" /\ last.arg \notin last.pre.members)
    => \A k \in Keys :
         assign(last.pre, k).tag = "ok"
           => assign(remove_node(Current, last.arg), k) = assign(last.pre, k)

\* The mapping node -> count that leaves out the nodes without a key.
RingTallies(st, keys) ==
  [n \in {m \in NodeIds : RingTally(st, keys, m) > 0} |-> RingTally(st, keys, n)]
SharderTallies(ns, keys) ==
  [n \in {m \in NodeIds : SharderTally(ns, keys, m) > 0} |-> SharderTally(ns, keys, n)]

\* C12: assign, distribution and sharding_comparison leave the ownership map,
\* the sorted index and the sharder's node list as they were, whether they
\* return or raise; and what sharding_comparison returns is the ring's tally
\* and the sharder's tally of the one batch it was given.
C12_ReadsLeaveStateAlone ==
  last.op \in {"assign", "distribution", "sharding_comparison"}
    => /\ ring = last.pre.ring
       /\ sorted_keys = last.pre.sorted_keys
       /\ nodes = last.pre.nodes
       /\ (last.op = "sharding_comparison" /\ last.out.tag = "ok")
            => /\ last.out.val.consistent_hash = RingTallies(Current, last.arg)
               /\ last.out.val.modulo = SharderTallies(nodes, last.arg)

\* C12 witness: sharding_comparison over two keys has returned two different
\* mappings on a ring and a sharder that hold both nodes.
C12_Witness ==
  /\ last.op = "sharding_comparison"
  /\ Len(last.arg) = 2
  /\ members = {"a", "b"}
  /\ last.out.tag = "ok"
  /\ last.out.val.consistent_hash # last.out.val.modulo
  /\ DictSum(last.out.val.consistent_hash) = 2

\* The reads of the ring: assign, and distribution alone or within sharding_comparison.
RingReads == {"assign", "distribution", "sharding_comparison"}

\* The exceptions the ring and the sharder raise by design.
DesignedErrors == {RingEmptyError, NoNodesError}

ShardCount(recs, n) == Cardinality({i \in 1 .. Len(recs) : recs[i].cache_shard = n})

\* The last k rows of a list.
LastRows(rows, k) == SubSeq(rows, Len(rows) - k + 1, Len(rows))

\* C18: once a run has handed its batch to the warehouse, every extracted
\* record is in the batch with cache_shard = assign(record.id), and the rows
\* loaded are that batch; the distribution is computed only when the whole
\* batch has been transformed, over the batch's ids; and the reported
\* cache_distribution gives each node the number of the batch's records whose
\* cache_shard is that node.
C18_RunLabelsThenTallies ==
  /\ (run.pc \in {"distribution", "done"}) =>
       /\ Len(run.transformed) = Len(run.raw_records)
       /\ \A i \in 1 .. Len(run.raw_records) :
            /\ run.transformed[i].id = run.raw_records[i].id
            /\ assign(Current, run.raw_records[i].id) = Ok(run.transformed[i].cache_shard)
       /\ Len(primary) >= Len(run.transformed)
       /\ LastRows(primary, Len(run.transformed)) = run.transformed
       /\ run.loaded = Len(run.transformed)
  /\ (last.op = "distribution") =>
       /\ run.pc \in {"done", "failed"}
       /\ Len(run.transformed) = Len(run.raw_records)
       /\ last.arg = ids_of(run.transformed)
  /\ (run.pc = "done") =>
       /\ last_result.present
       /\ last_result.records_extracted = Len(run.raw_records)
       /\ last_result.records_loaded = Len(run.transformed)
       /\ \A n \in NodeIds :
            DictGet(last_result.cache_distribution, n, 0) = ShardCount(run.transformed, n)
       /\ DOMAIN last_result.cache_distribution \subseteq NodeIds

\* A completed run over two records that went to different nodes.
C18_Witness ==
  /\ run.pc = "done"
  /\ Len(run.transformed) = 2
  /\ run.transformed[1].cache_shard # run.transformed[2].cache_shard
  /\ DOMAIN last_result.cache_distribution = {"a", "b"}

\* How many rows of the warehouse carry the id.
RowsWithId(rows, id) == Cardinality({i \in 1 .. Len(rows) : rows[i].id = id})

\* A run has just completed: its distribution call is the last call made, so
\* the sources hold exactly the records inserted before the run started.
RunJustCompleted == run.pc = "done" /\ last.op = "distribution"

\* C20: with a non-empty ring, when a run completes every record inserted
\* before it started is in the warehouse exactly once.
C20_EveryRecordLoadedOnce ==
  (RunJustCompleted /\ members # {}) =>
    \A s \in SourceNames : \A i \in 1 .. Len(sources[s]) :
      RowsWithId(primary, sources[s][i].id) = 1

====
